---- MODULE Spec2Model ----
(***************************************************************************)
(* The paraphraser page (src/pages/index.tsx, component Home): the state   *)
(* held in its useState hooks, the requests, clipboard writes and timers   *)
(* it has started, and one action per handler or continuation.             *)
(*                                                                         *)
(* JavaScript values are tagged records, so that null, undefined, 0, ""    *)
(* and [] stay distinct.  A string is the sequence of its characters.  A   *)
(* number is kept in hundredths (0.85 is Num(85), 14 is Num(1400)).        *)
(***************************************************************************)
EXTENDS Integers, Sequences, FiniteSets, TLC

\* ------------------------------------------------------------------------
\* Bounds of the model.

\* the longest text typed into the textarea
MaxLen == 1
\* the most paraphrase requests in flight at once
MaxInFlight == 2
\* the most keys present in one response body
MaxKeys == 2
\* the most copies under way at once: clipboard writes pending and
\* copied-indicator timeouts pending
MaxCopies == 1

\* ------------------------------------------------------------------------
\* JavaScript values.

Undefined == [t |-> "undefined"]
Null == [t |-> "null"]
Num(h) == [t |-> "number", v |-> h]
Str(s) == [t |-> "string", v |-> s]
Arr(a) == [t |-> "array", v |-> a]

\* ToBoolean: undefined, null, 0 and "" are falsy; every array is truthy
Truthy(x) ==
    /\ x.t \notin {"undefined", "null"}
    /\ x.t = "number" => x.v # 0
    /\ x.t = "string" => x.v # <<>>

\* a || b
Or(a, b) == IF Truthy(a) THEN a ELSE b

\* ------------------------------------------------------------------------
\* Strings.

Whitespace == {" ", "\t", "\n"}

RECURSIVE TrimStart(_)
TrimStart(s) ==
    IF s # <<>> /\ Head(s) \in Whitespace THEN TrimStart(Tail(s)) ELSE s

RECURSIVE TrimEnd(_)
TrimEnd(s) ==
    IF s # <<>> /\ s[Len(s)] \in Whitespace
    THEN TrimEnd(SubSeq(s, 1, Len(s) - 1))
    ELSE s

\* String.prototype.trim
TrimNone(s) == s
Trim(s) == TrimEnd(TrimStart(s))

DigitChars == <<"0","1","2","3","4","5","6","7","8","9">>

\* a non-negative integer in a template literal: its decimal digits
RECURSIVE Digits(_)
Digits(n) ==
    IF n < 10 THEN <<DigitChars[n + 1]>>
    ELSE Digits(n \div 10) \o <<DigitChars[(n % 10) + 1]>>

ValidationMessage ==
    <<"P","l","e","a","s","e"," ","e","n","t","e","r"," ","s","o","m","e",
      " ","t","e","x","t"," ","t","o"," ","p","a","r","a","p","h","r","a",
      "s","e">>

GenericMessage ==
    <<"A","n"," ","e","r","r","o","r"," ","o","c","c","u","r","r","e","d",
      " ","w","h","i","l","e"," ","p","a","r","a","p","h","r","a","s","i",
      "n","g">>

ErrorPrefix ==
    <<"E","r","r","o","r",":"," ">>

\* `Error: ${response.status} ${response.statusText}`
StatusMessageNoText(status, statusText) == ErrorPrefix \o Digits(status)
StatusMessage(status, statusText) ==
    ErrorPrefix \o Digits(status) \o <<" ">> \o statusText

AltPrefix ==
    <<"a","l","t","-">>

OutputTag ==
    <<"o","u","t","p","u","t">>

\* `alt-${index}`
AltTag(index) == AltPrefix \o Digits(index)

\* ------------------------------------------------------------------------
\* The canned sample of handleTestSample.

SampleInput ==
    <<"T","e","s","t","i","n","g"," ","t","h","i","s"," ","f","e","a","t",
      "u","r","e"," ","f","o","r"," ","t","o","d","a","y","s"," ","d","a",
      "i","l","y"," ","t","a","s","k"," ","I","'","l","l"," ","b","e"," ",
      "i","n","c","l","u","d","i","n","g"," ","t","h","i","s"," ","i","n",
      " ","t","h","e"," ","r","e","p","o","r","t">>

SampleParaphrasedText ==
    <<"T","e","s","t","i","n","g"," ","t","h","i","s"," ","f","e","a","t",
      "u","r","e"," ","f","o","r"," ","t","o","d","a","y","'","s"," ","d",
      "a","i","l","y"," ","t","a","s","k",","," ","I","'","l","l"," ","b",
      "e"," ","i","n","c","l","u","d","i","n","g"," ","t","h","i","s"," ",
      "i","n"," ","t","h","e"," ","r","e","p","o","r","t",".">>

SampleAlternative1 ==
    <<"I","'","m"," ","t","e","s","t","i","n","g"," ","t","h","i","s"," ",
      "f","e","a","t","u","r","e"," ","f","o","r"," ","t","o","d","a","y",
      "'","s"," ","d","a","i","l","y"," ","t","a","s","k"," ","a","n","d",
      " ","w","i","l","l"," ","i","n","c","l","u","d","e"," ","i","t"," ",
      "i","n"," ","t","h","e"," ","r","e","p","o","r","t",".">>

SampleAlternative2 ==
    <<"T","h","i","s"," ","f","e","a","t","u","r","e"," ","i","s"," ","b",
      "e","i","n","g"," ","t","e","s","t","e","d"," ","f","o","r"," ","t",
      "o","d","a","y","'","s"," ","d","a","i","l","y"," ","t","a","s","k",
      ","," ","a","n","d"," ","i","t"," ","w","i","l","l"," ","b","e"," ",
      "a","d","d","e","d"," ","t","o"," ","t","h","e"," ","r","e","p","o",
      "r","t",".">>

\* confidence_score: 0.85, in hundredths
SampleConfidence == 85
\* processing_time: 0.5, in hundredths
SampleProcessingTime == 50
\* word_count: 14
SampleWordCount == 14
\* character_count: 79
SampleCharacterCount == 79

sampleResponse ==
    [paraphrased_text |-> Str(SampleParaphrasedText),
     confidence_score |-> Num(SampleConfidence),
     alternatives |-> Arr(<<SampleAlternative1, SampleAlternative2>>),
     processing_time |-> Num(SampleProcessingTime),
     word_count |-> Num(SampleWordCount * 100),
     character_count |-> Num(SampleCharacterCount * 100)]

\* ------------------------------------------------------------------------
\* What the remote service may answer.

TextKeys == {"paraphrasedText", "paraphrased_text", "text"}
ListKeys == {"alternativeVersions", "alternatives", "alternative_versions"}
NumberKeys ==
    {"confidence", "confidence_score", "processingTime", "processing_time",
     "wordCount", "word_count", "characterCount", "character_count"}
Keys == TextKeys \cup ListKeys \cup NumberKeys

\* the values a present key may hold: null, or a value of the field's type
PresentValues(k) ==
    IF k \in TextKeys THEN {Null, Str(<<>>), Str(<<"x">>), Str(<<"y">>)}
    ELSE IF k \in ListKeys THEN {Null, Arr(<<>>), Arr(<< <<"x">> >>)}
    ELSE {Null, Num(0), Num(50), Num(100)}

AllPresentValues == UNION {PresentValues(k) : k \in Keys}

\* a JSON object with none of the known keys
EmptyBody == [k \in Keys |-> Undefined]

BodiesOn(S) ==
    {[k \in Keys |-> IF k \in S THEN f[k] ELSE Undefined] :
        f \in {g \in [S -> AllPresentValues] :
                 \A k \in S : g[k] \in PresentValues(k)}}

\* every JSON object with at most MaxKeys of the known keys present
Bodies ==
    UNION {BodiesOn(S) : S \in {T \in SUBSET Keys : Cardinality(T) <= MaxKeys}}

\* a response body: a JSON object, the JSON text null, or no JSON at all
ObjectBody(d) == [kind |-> "object", data |-> d]
NullBody == [kind |-> "null"]
InvalidBody == [kind |-> "invalid"]

\* a body of the service, in snake_case
SnakeBody ==
    [EmptyBody EXCEPT !.paraphrased_text = Str(<<"y">>),
                      !.confidence_score = Num(50),
                      !.alternatives = Arr(<< <<"x">> >>),
                      !.processing_time = Num(100),
                      !.word_count = Num(100),
                      !.character_count = Num(100)]

InternalServerError ==
    <<"I","n","t","e","r","n","a","l"," ","S","e","r","v","e","r"," ","E",
      "r","r","o","r">>

\* response.ok
Ok(status) == 200 <= status /\ status <= 299

\* the responses fetch may resolve with
ServerResponses ==
    {[status |-> 200, statusText |-> <<"O","K">>, body |-> b] :
        b \in {ObjectBody(EmptyBody), ObjectBody(SnakeBody),
               NullBody, InvalidBody}}
    \cup {[status |-> 500, statusText |-> InternalServerError,
           body |-> InvalidBody]}

\* thrown values: an Error with its message, or a value that is no Error
Error(message) == [isError |-> TRUE, message |-> message]
NotAnError == [isError |-> FALSE]

FailedToFetch ==
    <<"F","a","i","l","e","d"," ","t","o"," ","f","e","t","c","h">>

UnexpectedEnd ==
    <<"U","n","e","x","p","e","c","t","e","d"," ","e","n","d"," ","o","f",
      " ","J","S","O","N"," ","i","n","p","u","t">>

NullRead ==
    <<"C","a","n","n","o","t"," ","r","e","a","d"," ","p","r","o","p","e",
      "r","t","i","e","s"," ","o","f"," ","n","u","l","l">>

\* what a rejected fetch throws
FetchErrors == {Error(FailedToFetch), NotAnError}

\* ------------------------------------------------------------------------
\* What the user may enter.

paraphraseStyles == {"formal", "casual", "creative", "academic"}

\* the styles the user selects here
Styles == {v \in paraphraseStyles : v \in {"creative", "formal"}}

TypedChars == {" ", "a"}

\* every text of at most MaxLen typed characters
Texts == UNION {[1..n -> TypedChars] : n \in 0..MaxLen}

Dark == <<"d","a","r","k">>
Light == <<"l","i","g","h","t">>

\* ------------------------------------------------------------------------
\* State.

VARIABLES
    inputText,            \* useState(""): the textarea's text
    outputText,           \* useState("")
    selectedStyle,        \* useState("creative")
    isLoading,            \* useState(false)
    error,                \* useState("")
    confidenceScore,      \* useState<number | null>(null)
    alternativeVersions,  \* useState<string[]>([])
    processingTime,       \* useState<number | null>(null)
    wordCount,            \* useState<number | null>(null)
    characterCount,       \* useState<number | null>(null)
    isDarkMode,           \* useState(false)
    copiedText,           \* useState<string | null>(null)
    requests,             \* the calls of handleParaphrase waiting at an await
    copies,               \* the calls of handleCopyOutput waiting at their await
    timers,               \* the pending setTimeout callbacks of handleCopyOutput
    logged,               \* whether handleCopyOutput has called console.error
    theme,                \* localStorage's "theme" item
    darkClass,            \* whether <html> carries the class "dark"
    mounted               \* whether the effects of the first render have run

resultVars ==
    <<outputText, confidenceScore, alternativeVersions, processingTime,
      wordCount, characterCount>>
clientVars ==
    <<inputText, selectedStyle, isLoading, error, resultVars, requests>>
copyVars == <<copiedText, copies, timers, logged>>
themeVars == <<isDarkMode, theme, darkClass>>
vars == <<clientVars, copyVars, themeVars, mounted>>

\* the component as constructed: the initial values of the useState hooks
HomeState ==
    /\ inputText = <<>>
    /\ outputText = Str(<<>>)
    /\ selectedStyle = "creative"
    /\ isLoading = FALSE
    /\ error = <<>>
    /\ confidenceScore = Null
    /\ alternativeVersions = Arr(<<>>)
    /\ processingTime = Null
    /\ wordCount = Null
    /\ characterCount = Null
    /\ isDarkMode = FALSE
    /\ copiedText = Null

Init ==
    /\ HomeState
    /\ requests = <<>>
    /\ copies = <<>>
    /\ timers = 0
    /\ logged = FALSE
    /\ theme \in {Null, Str(Dark), Str(Light)}
    /\ darkClass = FALSE
    /\ mounted = FALSE

\* s without its i-th element
Remove(s, i) == SubSeq(s, 1, i - 1) \o SubSeq(s, i + 1, Len(s))

\* ------------------------------------------------------------------------
\* Theme.

\* the effect "Check for dark mode preference", run once after the first
\* render; prefersDark is the (prefers-color-scheme: dark) media query
CheckTheme(prefersDark) ==
    /\ ~mounted
    /\ mounted' = TRUE
    /\ isDarkMode' = (theme = Str(Dark) \/ (~Truthy(theme) /\ prefersDark))
    /\ UNCHANGED <<clientVars, copyVars, theme, darkClass>>

toggleDarkModePersistsOld ==
    LET newTheme == ~isDarkMode IN
    /\ mounted
    /\ isDarkMode' = newTheme
    /\ theme' = Str(IF isDarkMode THEN Dark ELSE Light)
    /\ darkClass' = newTheme
    /\ UNCHANGED <<clientVars, copyVars, mounted>>
toggleDarkMode ==
    LET newTheme == ~isDarkMode IN
    /\ mounted
    /\ isDarkMode' = newTheme
    /\ theme' = Str(IF newTheme THEN Dark ELSE Light)
    /\ darkClass' = newTheme
    /\ UNCHANGED <<clientVars, copyVars, mounted>>

\* the page is loaded again: the component is constructed anew in a new
\* document, whatever was pending is gone, localStorage is kept
Reload ==
    /\ inputText' = <<>>
    /\ outputText' = Str(<<>>)
    /\ selectedStyle' = "creative"
    /\ isLoading' = FALSE
    /\ error' = <<>>
    /\ confidenceScore' = Null
    /\ alternativeVersions' = Arr(<<>>)
    /\ processingTime' = Null
    /\ wordCount' = Null
    /\ characterCount' = Null
    /\ isDarkMode' = FALSE
    /\ copiedText' = Null
    /\ requests' = <<>>
    /\ copies' = <<>>
    /\ timers' = 0
    /\ logged' = FALSE
    /\ darkClass' = FALSE
    /\ mounted' = FALSE
    /\ UNCHANGED theme

\* ------------------------------------------------------------------------
\* Input.

\* the textarea's onChange
setInputText(v) ==
    /\ mounted
    /\ v # inputText
    /\ inputText' = v
    /\ UNCHANGED <<outputText, selectedStyle, isLoading, error, confidenceScore,
                   alternativeVersions, processingTime, wordCount,
                   characterCount, requests, copyVars, themeVars, mounted>>

\* the style select's onChange
setSelectedStyle(v) ==
    /\ mounted
    /\ v # selectedStyle
    /\ selectedStyle' = v
    /\ UNCHANGED <<inputText, outputText, isLoading, error, confidenceScore,
                   alternativeVersions, processingTime, wordCount,
                   characterCount, requests, copyVars, themeVars, mounted>>

\* ------------------------------------------------------------------------
\* The paraphrase request.

\* handleParaphrase up to its first await
handleParaphrase ==
    IF Trim(inputText) = <<>>
    THEN /\ error' = ValidationMessage
         /\ UNCHANGED <<inputText, selectedStyle, isLoading, resultVars,
                        requests, copyVars, themeVars, mounted>>
    ELSE /\ Len(requests) < MaxInFlight
         /\ isLoading' = TRUE
         /\ error' = <<>>
         /\ confidenceScore' = Null
         /\ alternativeVersions' = Arr(<<>>)
         /\ processingTime' = Null
         /\ wordCount' = Null
         /\ characterCount' = Null
         /\ requests' = Append(requests, [text |-> inputText,
                                          style |-> selectedStyle,
                                          phase |-> "fetch"])
         /\ UNCHANGED <<inputText, outputText, selectedStyle, copyVars,
                        themeVars, mounted>>

\* the Paraphrase button's disabled attribute
ParaphraseDisabledBlankOnly == Trim(inputText) = <<>>
ParaphraseDisabled == isLoading \/ Trim(inputText) = <<>>

\* a click on the Paraphrase button
ClickParaphrase ==
    /\ mounted
    /\ ~ParaphraseDisabled
    /\ handleParaphrase

\* handleParaphrase called with whatever text the textarea holds, also a
\* blank one, while no request is pending
CallParaphrase ==
    /\ mounted
    /\ ~isLoading
    /\ handleParaphrase

\* the catch block and the finally block, for the i-th pending call
ThrowNoFinally(i, thrown) ==
    /\ error' = IF thrown.isError THEN thrown.message ELSE GenericMessage
    /\ requests' = Remove(requests, i)
    /\ UNCHANGED <<inputText, selectedStyle, isLoading, resultVars, copyVars,
                   themeVars, mounted>>
ThrowRetries(i, thrown) ==
    /\ error' = IF thrown.isError THEN thrown.message ELSE GenericMessage
    /\ isLoading' = FALSE
    /\ requests' = [requests EXCEPT ![i] =
                      [text |-> @.text, style |-> @.style, phase |-> "fetch"]]
    /\ UNCHANGED <<inputText, selectedStyle, resultVars, copyVars, themeVars,
                   mounted>>
Throw(i, thrown) ==
    /\ error' = IF thrown.isError THEN thrown.message ELSE GenericMessage
    /\ isLoading' = FALSE
    /\ requests' = Remove(requests, i)
    /\ UNCHANGED <<inputText, selectedStyle, resultVars, copyVars, themeVars,
                   mounted>>

\* await fetch(...) resolves with a response: a status that is not OK throws
FetchResolves(i, response) ==
    /\ requests[i].phase = "fetch"
    /\ IF Ok(response.status)
       THEN /\ requests' = [requests EXCEPT ![i] =
                              [text |-> @.text, style |-> @.style,
                               phase |-> "json", response |-> response]]
            /\ UNCHANGED <<inputText, selectedStyle, isLoading, error,
                           resultVars, copyVars, themeVars, mounted>>
       ELSE Throw(i, Error(StatusMessage(response.status,
                                         response.statusText)))

\* await fetch(...) rejects
FetchRejects(i, thrown) ==
    /\ requests[i].phase = "fetch"
    /\ Throw(i, thrown)

\* await response.json() rejects: the body is no JSON
JsonRejects(i) ==
    /\ requests[i].phase = "json"
    /\ requests[i].response.body.kind = "invalid"
    /\ Throw(i, Error(UnexpectedEnd))

\* the normalisation of the parsed body, field by field
NormOutputText(data) ==
    Or(Or(Or(data.paraphrasedText, data.paraphrased_text), data.text),
       Str(<<>>))
NormConfidenceNoDefault(data) == Or(data.confidence, data.confidence_score)
NormConfidence(data) == Or(Or(data.confidence, data.confidence_score), Num(0))
NormAlternatives(data) ==
    Or(Or(Or(data.alternativeVersions, data.alternatives),
          data.alternative_versions),
       Arr(<<>>))
NormProcessingTime(data) ==
    Or(Or(data.processingTime, data.processing_time), Num(0))
NormWordCount(data) == Or(Or(data.wordCount, data.word_count), Num(0))
NormCharacterCount(data) ==
    Or(Or(data.characterCount, data.character_count), Num(0))

\* await response.json() resolves: reading a field of null throws, any other
\* body is normalised into the state
JsonResolvesDropsStale(i) ==
    /\ requests[i].phase = "json"
    /\ requests[i].response.body.kind # "invalid"
    /\ IF requests[i].response.body.kind = "null"
       THEN Throw(i, Error(NullRead))
       ELSE LET data == requests[i].response.body.data
                fresh == requests[i].text = inputText IN
            /\ outputText' = IF fresh THEN NormOutputText(data) ELSE outputText
            /\ confidenceScore' =
                 IF fresh THEN NormConfidence(data) ELSE confidenceScore
            /\ alternativeVersions' =
                 IF fresh THEN NormAlternatives(data) ELSE alternativeVersions
            /\ processingTime' =
                 IF fresh THEN NormProcessingTime(data) ELSE processingTime
            /\ wordCount' = IF fresh THEN NormWordCount(data) ELSE wordCount
            /\ characterCount' =
                 IF fresh THEN NormCharacterCount(data) ELSE characterCount
            /\ isLoading' = FALSE
            /\ requests' = Remove(requests, i)
            /\ UNCHANGED <<inputText, selectedStyle, error, copyVars,
                           themeVars, mounted>>
JsonResolves(i) ==
    /\ requests[i].phase = "json"
    /\ requests[i].response.body.kind # "invalid"
    /\ IF requests[i].response.body.kind = "null"
       THEN Throw(i, Error(NullRead))
       ELSE LET data == requests[i].response.body.data IN
            /\ outputText' = NormOutputText(data)
            /\ confidenceScore' = NormConfidence(data)
            /\ alternativeVersions' = NormAlternatives(data)
            /\ processingTime' = NormProcessingTime(data)
            /\ wordCount' = NormWordCount(data)
            /\ characterCount' = NormCharacterCount(data)
            /\ isLoading' = FALSE
            /\ requests' = Remove(requests, i)
            /\ UNCHANGED <<inputText, selectedStyle, error, copyVars,
                           themeVars, mounted>>

\* ------------------------------------------------------------------------
\* Clear All and Try Sample.

handleClearKeepsError ==
    /\ mounted
    /\ inputText' = <<>>
    /\ outputText' = Str(<<>>)
    /\ confidenceScore' = Null
    /\ alternativeVersions' = Arr(<<>>)
    /\ processingTime' = Null
    /\ wordCount' = Null
    /\ characterCount' = Null
    /\ UNCHANGED <<selectedStyle, isLoading, error, requests, copyVars,
                   themeVars, mounted>>
handleClear ==
    /\ mounted
    /\ inputText' = <<>>
    /\ outputText' = Str(<<>>)
    /\ error' = <<>>
    /\ confidenceScore' = Null
    /\ alternativeVersions' = Arr(<<>>)
    /\ processingTime' = Null
    /\ wordCount' = Null
    /\ characterCount' = Null
    /\ UNCHANGED <<selectedStyle, isLoading, requests, copyVars, themeVars,
                   mounted>>

handleTestSampleAppends ==
    /\ mounted
    /\ inputText' = SampleInput
    /\ outputText' = sampleResponse.paraphrased_text
    /\ confidenceScore' = sampleResponse.confidence_score
    /\ alternativeVersions' =
          Arr(alternativeVersions.v \o sampleResponse.alternatives.v)
    /\ processingTime' = sampleResponse.processing_time
    /\ wordCount' = sampleResponse.word_count
    /\ characterCount' = sampleResponse.character_count
    /\ UNCHANGED <<selectedStyle, isLoading, error, requests, copyVars,
                   themeVars, mounted>>
handleTestSample ==
    /\ mounted
    /\ inputText' = SampleInput
    /\ outputText' = sampleResponse.paraphrased_text
    /\ confidenceScore' = sampleResponse.confidence_score
    /\ alternativeVersions' = sampleResponse.alternatives
    /\ processingTime' = sampleResponse.processing_time
    /\ wordCount' = sampleResponse.word_count
    /\ characterCount' = sampleResponse.character_count
    /\ UNCHANGED <<selectedStyle, isLoading, error, requests, copyVars,
                   themeVars, mounted>>

\* ------------------------------------------------------------------------
\* Copy.

\* handleCopyOutput up to its await; the text goes to the clipboard, which
\* the page never reads
handleCopyOutput(text, type) ==
    /\ Len(copies) + timers < MaxCopies
    /\ copies' = Append(copies, [type |-> type])
    /\ UNCHANGED <<clientVars, copiedText, timers, logged, themeVars, mounted>>

\* the Copy button of the output, rendered while outputText is truthy
ClickCopyOutput ==
    /\ mounted
    /\ Truthy(outputText)
    /\ handleCopyOutput(outputText.v, OutputTag)

\* the Copy button of the alternative at index
ClickCopyAlternative(index) ==
    /\ mounted
    /\ index \in 0..(Len(alternativeVersions.v) - 1)
    /\ handleCopyOutput(alternativeVersions.v[index + 1], AltTag(index))

\* await navigator.clipboard.writeText(text) resolves
writeTextResolves(i) ==
    /\ copiedText' = Str(copies[i].type)
    /\ timers' = timers + 1
    /\ copies' = Remove(copies, i)
    /\ UNCHANGED <<clientVars, logged, themeVars, mounted>>

\* await navigator.clipboard.writeText(text) rejects: console.error only
writeTextRejectsMarksCopied(i) ==
    /\ copies' = Remove(copies, i)
    /\ copiedText' = Str(copies[i].type)
    /\ logged' = TRUE
    /\ UNCHANGED <<clientVars, timers, themeVars, mounted>>
writeTextRejects(i) ==
    /\ copies' = Remove(copies, i)
    /\ logged' = TRUE
    /\ UNCHANGED <<clientVars, copiedText, timers, themeVars, mounted>>

\* a callback of setTimeout(() => setCopiedText(null), 2000) runs
CopiedTimeout ==
    /\ timers > 0
    /\ copiedText' = Null
    /\ timers' = timers - 1
    /\ UNCHANGED <<clientVars, copies, logged, themeVars, mounted>>

\* ------------------------------------------------------------------------
\* The page as rendered: every control the user can act on, and every
\* completion of what the handlers started.

Settle ==
    \/ \E i \in DOMAIN requests, r \in ServerResponses : FetchResolves(i, r)
    \/ \E i \in DOMAIN requests, e \in FetchErrors : FetchRejects(i, e)
    \/ \E i \in DOMAIN requests : JsonResolves(i)
    \/ \E i \in DOMAIN requests : JsonRejects(i)

Edit ==
    \/ \E v \in Texts : setInputText(v)
    \/ \E v \in Styles : setSelectedStyle(v)

Page ==
    \/ \E prefersDark \in BOOLEAN : CheckTheme(prefersDark)
    \/ toggleDarkMode
    \/ Reload
    \/ ClickCopyOutput
    \/ \E index \in 0..(Len(alternativeVersions.v) - 1) :
          ClickCopyAlternative(index)
    \/ \E i \in DOMAIN copies : writeTextResolves(i)
    \/ \E i \in DOMAIN copies : writeTextRejects(i)
    \/ CopiedTimeout

\* the paraphrase client: the input, the three buttons and the request
Client ==
    \/ Edit
    \/ ClickParaphrase
    \/ Settle
    \/ handleClear
    \/ handleTestSample

Next ==
    \/ Client
    \/ Page

Spec == Init /\ [][Next]_vars

\* The handlers as operations: handleParaphrase is called with any input
\* text, which the disabled Paraphrase button never lets a click do.
NextOps ==
    \/ \E prefersDark \in BOOLEAN : CheckTheme(prefersDark)
    \/ Edit
    \/ CallParaphrase
    \/ Settle
    \/ handleClear
    \/ handleTestSample

SpecOps == Init /\ [][NextOps]_vars

\* The paraphrase client with a remote call that eventually resolves or
\* rejects.  The copy buttons and the theme toggle, which leave the client's
\* state alone, are left out.
NextFair ==
    \/ \E prefersDark \in BOOLEAN : CheckTheme(prefersDark)
    \/ Client

FairSpec == Init /\ [][NextFair]_vars /\ WF_vars(Settle)

\* The normalisation alone.  Each initial state is the page after "a" was
\* typed, Paraphrase was clicked and the fetch resolved with status 200 and
\* a JSON object d; the one step reads d.
Submitted(d) ==
    [text |-> <<"a">>, style |-> "creative", phase |-> "json",
     response |-> [status |-> 200, statusText |-> <<"O","K">>,
                   body |-> ObjectBody(d)]]

InitNormalize ==
    /\ inputText = <<"a">>
    /\ outputText = Str(<<>>)
    /\ selectedStyle = "creative"
    /\ isLoading = TRUE
    /\ error = <<>>
    /\ confidenceScore = Null
    /\ alternativeVersions = Arr(<<>>)
    /\ processingTime = Null
    /\ wordCount = Null
    /\ characterCount = Null
    /\ isDarkMode = FALSE
    /\ copiedText = Null
    /\ \E d \in Bodies : requests = <<Submitted(d)>>
    /\ copies = <<>>
    /\ timers = 0
    /\ logged = FALSE
    /\ theme = Null
    /\ darkClass = FALSE
    /\ mounted = TRUE

NextNormalize == \E i \in DOMAIN requests : JsonResolves(i)

SpecNormalize == InitNormalize /\ [][NextNormalize]_vars

\* ------------------------------------------------------------------------
\* Vocabulary of the properties.

\* s holds nothing but whitespace
Blank(s) == \A k \in DOMAIN s : s[k] \in Whitespace

\* sub occurs in s
Contains(s, sub) ==
    \E k \in 0..(Len(s) - Len(sub)) : SubSeq(s, k + 1, k + Len(sub)) = sub

\* this step starts a fetch
FetchStarted == Len(requests') = Len(requests) + 1

\* this step ends a request
RequestEnded == Len(requests') = Len(requests) - 1

\* this step ends a request in the catch block
RequestFailed == RequestEnded /\ error' # <<>> /\ error' # error

\* this step ends the i-th request with its body accepted
Accepted(i) ==
    /\ requests[i].phase = "json"
    /\ requests[i].response.body.kind = "object"
    /\ requests' = Remove(requests, i)

NoResult ==
    /\ outputText = Str(<<>>)
    /\ confidenceScore = Null
    /\ alternativeVersions = Arr(<<>>)
    /\ processingTime = Null
    /\ wordCount = Null
    /\ characterCount = Null

\* the value of the first of keys present in data, else default
FirstPresent(data, keys, default) ==
    LET present == {k \in DOMAIN keys : data[keys[k]] # Undefined} IN
    IF present = {} THEN default
    ELSE data[keys[CHOOSE k \in present : \A m \in present : k <= m]]

\* ------------------------------------------------------------------------
\* C1: a submit with non-blank text sets the loading flag and clears the
\* error, the metrics, the alternatives and the previous output text, so
\* that a request that then fails leaves no earlier output text in the state.
C1_SubmitClearsPrevious ==
    [][/\ FetchStarted => (isLoading' /\ error' = <<>> /\ NoResult')
       /\ RequestFailed => outputText' = Str(<<>>)]_vars

\* C2: every field accepted from a response body is the value of the first
\* of its keys that is present, whatever that value is (0, "", [] and null
\* included), and its default when none of its keys is present.
C2_FirstPresentKey ==
    [][\A i \in DOMAIN requests :
         Accepted(i) =>
           LET data == requests[i].response.body.data IN
           /\ outputText' =
                FirstPresent(data, <<"paraphrasedText", "paraphrased_text",
                                     "text">>, Str(<<>>))
           /\ confidenceScore' =
                FirstPresent(data, <<"confidence", "confidence_score">>,
                             Num(0))
           /\ alternativeVersions' =
                FirstPresent(data, <<"alternativeVersions", "alternatives",
                                     "alternative_versions">>, Arr(<<>>))
           /\ processingTime' =
                FirstPresent(data, <<"processingTime", "processing_time">>,
                             Num(0))
           /\ wordCount' =
                FirstPresent(data, <<"wordCount", "word_count">>, Num(0))
           /\ characterCount' =
                FirstPresent(data, <<"characterCount", "character_count">>,
                             Num(0))]_vars

\* C3: handleParaphrase called with empty or whitespace-only text starts no
\* request, leaves the loading flag as it is and sets the validation
\* message, from an idle, a succeeded and a failed state alike.
C3_BlankSubmitRejected ==
    [][(handleParaphrase /\ Blank(inputText)) =>
         /\ error' = ValidationMessage
         /\ requests' = requests
         /\ isLoading' = isLoading]_vars

\* a whitespace-only text was submitted over the result of an earlier request
C3_Witness ==
    /\ error = ValidationMessage
    /\ inputText = <<" ">>
    /\ Truthy(outputText)
    /\ confidenceScore = Num(50)
    /\ requests = <<>>
    /\ ~isLoading

\* C4: a request that fails ends with the loading flag down and a message:
\* for a status that is not OK one holding the status code and the status
\* text, for a rejected fetch or an unparsable body the thrown error's
\* message, for a thrown value that is no Error the generic message; and no
\* result field is written.
C4_FailureSetsMessageOnly ==
    [][\A i \in DOMAIN requests :
         /\ \A r \in ServerResponses :
              (FetchResolves(i, r) /\ r.status = 500) =>
                /\ Contains(error', <<"5","0","0">>)
                /\ Contains(error', r.statusText)
                /\ ~isLoading'
                /\ UNCHANGED resultVars
         /\ \A e \in FetchErrors :
              FetchRejects(i, e) =>
                /\ e.isError => error' = e.message
                /\ ~e.isError => error' = GenericMessage
                /\ ~isLoading'
                /\ UNCHANGED resultVars
         /\ JsonRejects(i) =>
              /\ error' = UnexpectedEnd
              /\ ~isLoading'
              /\ UNCHANGED resultVars
         /\ (JsonResolves(i) /\ requests[i].response.body.kind = "null") =>
              /\ error' = NullRead
              /\ ~isLoading'
              /\ UNCHANGED resultVars]_vars

\* a request failed with status 500 over the result of an earlier request
C4_Witness ==
    /\ Contains(error, <<"5","0","0">>)
    /\ Contains(error, InternalServerError)
    /\ Truthy(outputText)
    /\ requests = <<>>
    /\ ~isLoading

\* C5: every step that ends a request (accepted, status not OK, rejected
\* fetch, unparsable body) leaves the loading flag down; and, the remote
\* call settling eventually, a state with the flag up is followed by one
\* with the flag down.
C5_LoadingCleared ==
    /\ [][RequestEnded => ~isLoading']_vars
    /\ isLoading ~> ~isLoading

\* a request has failed and the loading flag is down
C5_Witness ==
    /\ error = UnexpectedEnd
    /\ requests = <<>>
    /\ ~isLoading

C7_OneRequestInFlight == Len(requests) <= 1

\* a request is in flight while the user has edited the text, changed the
\* style and started a copy
C7_Witness ==
    /\ Len(requests) = 1
    /\ isLoading
    /\ inputText # requests[1].text
    /\ Trim(inputText) # <<>>
    /\ selectedStyle # requests[1].style
    /\ copies # <<>>

\* C8: handleClear in a state that is not loading leaves the input text,
\* the output text and the error empty, no alternatives and null metrics.
C8_ClearReturnsToIdle ==
    [][(handleClear /\ ~isLoading) =>
         /\ inputText' = <<>>
         /\ error' = <<>>
         /\ NoResult'
         /\ ~isLoading']_vars

\* the page is idle although an output text was once copied: it was cleared
C8_Witness ==
    /\ copiedText = Str(OutputTag)
    /\ inputText = <<>>
    /\ error = <<>>
    /\ NoResult
    /\ ~isLoading

SampleHeld ==
    /\ inputText = SampleInput
    /\ outputText = Str(SampleParaphrasedText)
    /\ confidenceScore = Num(85)
    /\ alternativeVersions = Arr(<<SampleAlternative1, SampleAlternative2>>)
    /\ processingTime = Num(50)
    /\ wordCount = Num(1400)
    /\ characterCount = Num(7900)

\* C9: handleTestSample leaves the same input text, output text, confidence
\* 0.85, two alternatives, processing time 0.5, word count 14 and character
\* count 79 from every state, the state it left itself included, and starts
\* no request and no clipboard write.
C9_SampleIdempotent ==
    [][handleTestSample =>
         /\ SampleHeld'
         /\ UNCHANGED <<requests, copies, timers, theme, isLoading>>]_vars

\* the sample was loaded while a request was in flight
C9_Witness ==
    /\ SampleHeld
    /\ isLoading
    /\ Len(requests) = 1

HeldResult ==
    \/ Truthy(outputText)
    \/ confidenceScore # Null
    \/ processingTime # Null
    \/ wordCount # Null
    \/ characterCount # Null
    \/ alternativeVersions # Arr(<<>>)

\* C10: an error message is never held together with a result, nor with the
\* loading flag up.
C10_OneRequestState ==
    /\ error # <<>> => ~HeldResult
    /\ ~(isLoading /\ error # <<>>)

\* this step raises an error: the validation of a blank text, or a message
\* set by the catch block
ErrorRaised ==
    \/ handleParaphrase /\ Blank(inputText)
    \/ error' # <<>> /\ error' # error

\* C11: a step starts at most one fetch, and only a call of handleParaphrase
\* with non-blank text starts one; a step that raises an error (validation,
\* status not OK, any other thrown value) leaves no request pending and the
\* loading flag down, so that the Paraphrase button is enabled whenever the
\* text is not blank; and handleParaphrase called with non-blank text while an
\* error is shown starts a new request.
C11_ErrorsTerminal ==
    /\ [][/\ Len(requests') <= Len(requests) + 1
          /\ FetchStarted => (handleParaphrase /\ ~Blank(inputText))
          /\ ErrorRaised =>
               /\ requests' = <<>>
               /\ ~isLoading'
               /\ Trim(inputText') # <<>> => ~ParaphraseDisabled'
          /\ (CallParaphrase /\ error # <<>> /\ ~Blank(inputText)) =>
               /\ FetchStarted
               /\ requests'[Len(requests')].phase = "fetch"
               /\ isLoading'
               /\ error' = <<>>]_vars
    /\ [](error # <<>> /\ ~Blank(inputText) => ENABLED CallParaphrase)

\* a rejected fetch has left its message, no request pending and the
\* Paraphrase button enabled
C11_Witness ==
    /\ error = FailedToFetch
    /\ requests = <<>>
    /\ ~ParaphraseDisabled

\* C12: a clipboard write that fails is logged and does nothing else: the
\* error, the loading flag, the input text, the output text, the metrics, the
\* alternatives and the copied-indicator stay as they were and no timer is
\* started; the copied-indicator takes a tag only in the step of a write
\* that succeeds, and the tag is the one the copy was started with.
C12_CopyFailureLoggedOnly ==
    [][/\ \A i \in DOMAIN copies :
            writeTextRejects(i) =>
              /\ logged'
              /\ UNCHANGED <<error, isLoading, inputText, resultVars,
                             copiedText, timers>>
       /\ (copiedText' # copiedText /\ copiedText' # Null) =>
            \E i \in DOMAIN copies :
              /\ writeTextResolves(i)
              /\ copiedText' = Str(copies[i].type)
              /\ copies[i].type \in {OutputTag, AltTag(0), AltTag(1)}]_vars

\* a copy of an alternative has failed: it is logged, the alternatives are
\* still shown and nothing is marked as copied
C12_Witness ==
    /\ logged
    /\ copies = <<>>
    /\ timers = 0
    /\ copiedText = Null
    /\ error = <<>>
    /\ alternativeVersions # Arr(<<>>)

\* the persisted theme names the mode held in memory
ThemeAgrees == theme = Str(IF isDarkMode THEN Dark ELSE Light)

\* C13: the effect run at startup sets the mode to dark exactly when the
\* persisted theme is "dark", or none is persisted and the OS prefers dark,
\* and writes nothing; a toggle flips the mode and persists the name of the
\* new mode; while the page stays loaded, a persisted theme that names the
\* mode keeps naming it; a reload keeps the persisted theme, and the effect
\* run after it restores the mode that theme names.
C13_ThemePersisted ==
    [][/\ \A prefersDark \in BOOLEAN :
            CheckTheme(prefersDark) =>
              /\ isDarkMode' <=>
                   (theme = Str(Dark) \/ (theme = Null /\ prefersDark))
              /\ theme' = theme
       /\ toggleDarkMode =>
            /\ isDarkMode' = ~isDarkMode
            /\ theme' \in {Str(Dark), Str(Light)}
            /\ ThemeAgrees'
       /\ (mounted /\ mounted' /\ ThemeAgrees) => ThemeAgrees'
       /\ (mounted /\ ~mounted') => theme' = theme
       /\ (~mounted /\ mounted' /\ theme # Null) => ThemeAgrees']_vars

\* the mode was toggled to dark, and "dark" is persisted
C13_Witness ==
    /\ mounted
    /\ isDarkMode
    /\ darkClass
    /\ theme = Str(Dark)

\* the request state Idle: not loading, no error and no result held
Idle ==
    /\ ~isLoading
    /\ error = <<>>
    /\ NoResult

\* C14: handleClear, from any state, a loading one included, leaves the
\* request state Idle and the input text empty; and an Idle state is left
\* only by a click on Paraphrase or by handleTestSample, so that no later
\* event brings back an output text or metrics.
C14_ClearResetsToIdle ==
    [][/\ handleClear => (Idle' /\ inputText' = <<>>)
       /\ (Idle /\ ~Idle') => (ClickParaphrase \/ handleTestSample)]_vars

\* the payload of a pending request
Payload(r) == <<r.text, r.style>>

\* C15: the request started by a submit carries the input text and the style
\* of that moment, and no later step changes them; an edit of the text, a
\* change of style and handleTestSample leave the pending requests as they
\* are; and a body accepted afterwards overwrites the output text, the
\* metrics and the alternatives with its normalised values, whatever was put
\* there meanwhile, and leaves the input text and the selected style alone
\* (the page staying loaded: a reload drops what is pending).
C15_LastWriteWins ==
    [][/\ FetchStarted =>
            Payload(requests'[Len(requests')]) = <<inputText, selectedStyle>>
       /\ (Edit \/ handleTestSample) => requests' = requests
       /\ Len(requests') = Len(requests) =>
            \A i \in DOMAIN requests :
              Payload(requests'[i]) = Payload(requests[i])
       /\ \A i \in DOMAIN requests :
            (Accepted(i) /\ mounted') =>
              LET data == requests[i].response.body.data IN
              /\ outputText' = NormOutputText(data)
              /\ confidenceScore' = NormConfidence(data)
              /\ alternativeVersions' = NormAlternatives(data)
              /\ processingTime' = NormProcessingTime(data)
              /\ wordCount' = NormWordCount(data)
              /\ characterCount' = NormCharacterCount(data)
              /\ inputText' = inputText
              /\ selectedStyle' = selectedStyle]_vars

\* the response of a request submitted with another text and another style
\* has arrived and is about to be read, while the sample is held
C15_Witness ==
    /\ Len(requests) = 1
    /\ requests[1].phase = "json"
    /\ requests[1].response.body = ObjectBody(SnakeBody)
    /\ requests[1].text = <<"a">>
    /\ requests[1].style # selectedStyle
    /\ SampleHeld

====
